---- MODULE Spec2Model ----
(***************************************************************************)
(* A model of buildshapeify.py: the template-merge engine that grafts      *)
(* texture-coordinate templates into material documents, resolves output   *)
(* file names, builds and applies the scene-object replacement map, copies *)
(* referenced textures, and drives all of it per group and per material.   *)
(*                                                                         *)
(* Text is a tuple of one-character strings, a path is a tuple of          *)
(* components (each a text), an exception is a value Raise(kind).          *)
(***************************************************************************)
EXTENDS Integers, Sequences, FiniteSets, TLC

VARIABLES
    args,       \* the arguments of the function under call (single-function runs)
    result,     \* what the call returned or raised; NotCalled before
    run_groups,         \* run_config.run_groups: [nl2sco_file, nl2mat_files] each
    tc_templates,       \* the material templates found: [file, parses, texunits] each
    materials,          \* file system: each .nl2mat file's document
    sco_trees,          \* file system: each .nl2sco file's document
    uncopyable,         \* file system: the sources whose copy raises
    pc,                 \* where run_for_config stands
    group_i, mat_i, tpl_i,  \* the group, material and template loops' positions
    sco_replacements,   \* process_group_files' dict
    heap,               \* the texunit elements alive: each one's children
    nl2mat_tree,        \* handle_materials' parsed tree: its texunit elements
    log,                \* every copy attempted and every file written, in order
    baselines,          \* what get_sco_replacements returned, per group started
    crash               \* the exception that left run_for_config, if any

pureVars == <<args, result>>
worldVars == <<run_groups, tc_templates, materials, sco_trees, uncopyable>>
runVars == <<pc, group_i, mat_i, tpl_i, sco_replacements, heap, nl2mat_tree, log, baselines, crash>>
vars == <<pureVars, worldVars, runVars>>

\* ------------------------------------------------------------------ bounds

\* how many name pieces a template file name is assembled from
MaxNamePieces == 4
\* how many text pieces a scene-object template text is assembled from
MaxTextPieces == 3
\* how deep below the root an output directory lies
MaxDirDepth == 2
\* how many directory groups a run holds (besides the group of loose files)
MaxDirGroups == 1
\* how many files of a run are unreadable, uncopyable or malformed
MaxFaults == 1
\* how many texunits a material document holds, and how many children each
MaxTexunits == 2
MaxChildren == 2

\* ------------------------------------------------------- values, exceptions

Ok(v) == [exc |-> "none", val |-> v]
Raise(kind) == [exc |-> kind, val |-> <<>>]
NotCalled == [exc |-> "not called", val |-> <<>>]

RECURSIVE Flatten(_)
Flatten(ss) == IF Len(ss) = 0 THEN <<>> ELSE Head(ss) \o Flatten(Tail(ss))

Last(s) == s[Len(s)]
Front(s) == SubSeq(s, 1, Len(s) - 1)
EndsWith(s, e) == Len(e) <= Len(s) /\ SubSeq(s, Len(s) - Len(e) + 1, Len(s)) = e
Contains(s, c) == \E i \in 1..Len(s) : s[i] = c

\* ------------------------------------------------------------ str.replace

\* does old occur in s at index i
MatchAt(s, i, old) == i + Len(old) - 1 <= Len(s) /\ SubSeq(s, i, i + Len(old) - 1) = old

Min(S) == CHOOSE x \in S : \A y \in S : x <= y
Max(S) == CHOOSE x \in S : \A y \in S : y <= x

\* the scan from index i: copy up to the next occurrence, put new, go on behind it
RECURSIVE ReplaceFrom(_, _, _, _)
ReplaceFrom(s, i, old, new) ==
    LET hits == {j \in i..Len(s) : MatchAt(s, j, old)}
    IN IF hits = {} THEN SubSeq(s, i, Len(s))
       ELSE SubSeq(s, i, Min(hits) - 1) \o new \o ReplaceFrom(s, Min(hits) + Len(old), old, new)

\* s.replace(old, new) for a non-empty old: every occurrence, left to right,
\* never rescanning what was inserted
Replace(s, old, new) == ReplaceFrom(s, 1, old, new)

\* ---------------------------------------------------------------- pathlib

Sep == "/"

\* PurePath.name: the last component, empty for the empty path and for a root
Name(path) == IF path = <<>> \/ Last(path) = <<Sep>> THEN <<>> ELSE Last(path)

\* str.rfind, counting from 1: the last index of c in s, 0 when there is none
RFind(s, c) == LET at == {i \in 1..Len(s) : s[i] = c} IN IF at = {} THEN 0 ELSE Max(at)

\* PurePath.suffix of a name: from its last dot, unless that dot leads or ends it
Suffix(name) ==
    LET i == RFind(name, ".")
    IN IF 0 < i - 1 /\ i < Len(name) THEN SubSeq(name, i, Len(name)) ELSE <<>>

ValidName(name) == name # <<>> /\ name # <<".">> /\ ~Contains(name, Sep)

\* PurePath.with_name
WithName(path, name) ==
    IF Name(path) = <<>> \/ ~ValidName(name) THEN Raise("ValueError")
    ELSE Ok(Front(path) \o <<name>>)

\* PurePath.with_suffix
WithSuffix(path, suffix) ==
    IF Contains(suffix, Sep) \/ (suffix # <<>> /\ Head(suffix) # ".") \/ suffix = <<".">>
        THEN Raise("ValueError")
    ELSE IF Name(path) = <<>> THEN Raise("ValueError")
    ELSE LET name == Name(path)
             old_suffix == Suffix(name)
             new_name == IF old_suffix = <<>> THEN name \o suffix
                         ELSE SubSeq(name, 1, Len(name) - Len(old_suffix)) \o suffix
         IN Ok(Front(path) \o <<new_name>>)

Root == <<Sep>>
IsAbsolute(path) == path # <<>> /\ Head(path) = Root
\* PurePath.parent
Parent(path) == IF path = <<>> \/ path = <<Root>> THEN path ELSE Front(path)
\* PurePath.stem: the name without its suffix
Stem(path) == SubSeq(Name(path), 1, Len(Name(path)) - Len(Suffix(Name(path))))

\* the components of a path given as text: split at the separators, empty
\* components and "." dropped
RECURSIVE SplitFrom(_, _)
SplitFrom(text, i) ==
    LET seps == {j \in i..Len(text) : text[j] = Sep}
        stop == IF seps = {} THEN Len(text) + 1 ELSE Min(seps)
        part == SubSeq(text, i, stop - 1)
        rest == IF seps = {} THEN <<>> ELSE SplitFrom(text, stop + 1)
    IN IF part = <<>> \/ part = <<".">> THEN rest ELSE <<part>> \o rest
ParseParts(text) ==
    IF text # <<>> /\ Head(text) = Sep THEN <<Root>> \o SplitFrom(text, 1) ELSE SplitFrom(text, 1)

\* path / text: an absolute right side replaces the left one
JoinPath(path, text) ==
    LET parts == ParseParts(text) IN IF IsAbsolute(parts) THEN parts ELSE path \o parts

\* PurePath.relative_to: only a path below (or equal to) other has an answer
RelativeTo(path, other) ==
    IF Len(other) <= Len(path) /\ SubSeq(path, 1, Len(other)) = other
        THEN Ok(SubSeq(path, Len(other) + 1, Len(path)))
    ELSE Raise("ValueError")

RECURSIVE JoinWith(_, _)
JoinWith(texts, sep) ==
    IF Len(texts) = 0 THEN <<>>
    ELSE IF Len(texts) = 1 THEN texts[1]
    ELSE texts[1] \o sep \o JoinWith(Tail(texts), sep)

\* PurePath.as_posix: the components joined by forward slashes
AsPosix(path) ==
    IF path = <<>> THEN <<".">>
    ELSE IF IsAbsolute(path) THEN Root \o JoinWith(Tail(path), <<Sep>>)
    ELSE JoinWith(path, <<Sep>>)

\* ------------------------------------------------- transform_to_dst_file

TransformAppendsSuffix(template_file, replace_string, replaced_name, suffix, dst_path) ==
    LET named == WithName(template_file, Replace(Name(template_file), replace_string, replaced_name))
    IN IF named.exc # "none" THEN named
       ELSE Ok(dst_path \o <<Last(named.val) \o suffix>>)

TransformToDstFile(template_file, replace_string, replaced_name, suffix, dst_path) ==
    LET named == WithName(template_file, Replace(Name(template_file), replace_string, replaced_name))
        suffixed == IF named.exc # "none" THEN named ELSE WithSuffix(named.val, suffix)
    IN IF suffixed.exc # "none" THEN suffixed
       ELSE Ok(dst_path \o <<Last(suffixed.val)>>)

\* the file name tokens and suffixes of the templates and of the files made
MatToken == <<"[","m","a","t","]">>
ScoToken == <<"[","s","c","o","]">>
XmlSuffix == <<".","x","m","l">>
Nl2matSuffix == <<".","n","l","2","m","a","t">>
Nl2scoSuffix == <<".","n","l","2","s","c","o">>

\* ------------------------------------------------------------------ dicts

\* a dict is the tuple of its <<key, value>> items in insertion order
Keys(d) == {d[i][1] : i \in 1..Len(d)}
Lookup(d, k) == d[CHOOSE i \in 1..Len(d) : d[i][1] = k][2]
\* d[k] = v: an existing key keeps its place, a new one goes last
Assign(d, k, v) ==
    IF k \in Keys(d) THEN [i \in 1..Len(d) |-> IF d[i][1] = k THEN <<k, v>> ELSE d[i]]
    ELSE Append(d, <<k, v>>)

\* ---------------------------------------------- with_applied_placeholders

PreviewToken == <<"{","p","r","e","v","i","e","w","}">>
UsercolorsToken == <<"{","o","r","i","g","i","n","a","l","_","u","s","e","r","c","o","l","o","r","s","}">>
ScaleToken == <<"{","s","c","a","l","e","_","s","e","t","t","i","n","g","s","}">>
MaterialNameToken == <<"{","m","a","t","e","r","i","a","l","_","n","a","m","e","}">>
Tokens == {PreviewToken, UsercolorsToken, ScaleToken, MaterialNameToken}

RECURSIVE ApplyItems(_, _, _)
ApplyItems(content, items, i) ==
    IF i > Len(items) THEN content
    ELSE ApplyItems(Replace(content, items[i][1], items[i][2]), items, i + 1)

\* the loop returning from inside its first round
ApplyFirstItemOnly(content, replacements) ==
    IF replacements = <<>> THEN content
    ELSE Replace(content, replacements[1][1], replacements[1][2])

\* content is what read_content_of(template_file) returned
WithAppliedPlaceholders(content, replacements) == ApplyItems(content, replacements, 1)

\* ------------------------------------------------------------- copy_files

CopyAttempt(pair, failing) ==
    [src |-> pair[1], dst |-> pair[2], copied |-> pair[1] \notin failing]

\* the first failing copy's exception leaves the loop
CopyFilesUncaught(src_dst_list, failing) ==
    LET bad == {i \in 1..Len(src_dst_list) : src_dst_list[i][1] \in failing}
    IN IF bad = {}
       THEN [exc |-> "none",
             copies |-> [i \in 1..Len(src_dst_list) |-> CopyAttempt(src_dst_list[i], failing)]]
       ELSE [exc |-> "OSError",
             copies |-> [i \in 1..Min(bad) |-> CopyAttempt(src_dst_list[i], failing)]]

\* every pair is attempted in turn; a copy that raises (its source is in
\* failing) is logged and skipped by one of the two except clauses, so no
\* exception leaves copy_files
CopyFiles(src_dst_list, failing) ==
    [exc |-> "none",
     copies |-> [i \in 1..Len(src_dst_list) |-> CopyAttempt(src_dst_list[i], failing)]]

\* --------------------------------------------------- get_sco_replacements

\* ElementTree.tostring(color, encoding='unicode') of a usercolor element
ElementToString(color) ==
    (IF color.text = <<>> THEN <<"<","u","s","e","r","c","o","l","o","r"," ","/",">">>
     ELSE <<"<","u","s","e","r","c","o","l","o","r",">">> \o color.text \o <<"<","/","u","s","e","r","c","o","l","o","r",">">>) \o color.tail

PreviewTag(preview_text) == <<"<","p","r","e","v","i","e","w",">">> \o preview_text \o <<"<","/","p","r","e","v","i","e","w",">">>

DefaultReplacements ==
    << <<PreviewToken, <<>> >>, <<UsercolorsToken, <<>> >>,
       <<ScaleToken, <<>> >>, <<MaterialNameToken, <<>> >> >>

\* nl2sco_file is <<>> for None; sco_tree is what ElementTree.parse gives for the
\* file: parses, the text of each sceneobject/preview (<<>> for None) and the
\* sceneobject/usercolor elements. The answer carries the copies attempted.
GetScoReplacements(nl2sco_file, preview_dst, sco_dst, sco_tree, failing) ==
    IF nl2sco_file = <<>>
        THEN [exc |-> "none", val |-> DefaultReplacements, copies |-> <<>>]
    ELSE IF ~sco_tree.parses
        THEN [exc |-> "ParseError", val |-> <<>>, copies |-> <<>>]
    ELSE IF sco_tree.previews # <<>> /\ sco_tree.previews[1] = <<>>
        THEN [exc |-> "TypeError", val |-> <<>>, copies |-> <<>>]
    ELSE
        LET has_preview == sco_tree.previews # <<>>
            preview_text == sco_tree.previews[1]
            preview_src_file == JoinPath(Parent(nl2sco_file), preview_text)
            preview_dst_file == JoinPath(preview_dst, preview_text)
            copied == IF has_preview
                      THEN CopyFiles(<< <<preview_src_file, preview_dst_file>> >>, failing)
                      ELSE [exc |-> "none", copies |-> <<>>]
            copies == copied.copies
            relative == RelativeTo(preview_dst_file, sco_dst)
            usercolors == [i \in 1..Len(sco_tree.usercolors) |-> ElementToString(sco_tree.usercolors[i])]
            with_preview == IF has_preview
                            THEN Assign(DefaultReplacements, PreviewToken,
                                        PreviewTag(AsPosix(relative.val)))
                            ELSE DefaultReplacements
            with_colors == IF usercolors # <<>>
                           THEN Assign(with_preview, UsercolorsToken, JoinWith(usercolors, <<"\n">>))
                           ELSE with_preview
        IN IF copied.exc # "none"
               THEN [exc |-> copied.exc, val |-> <<>>, copies |-> copies]
           ELSE IF has_preview /\ relative.exc # "none"
               THEN [exc |-> relative.exc, val |-> <<>>, copies |-> copies]
           ELSE [exc |-> "none", val |-> with_colors, copies |-> copies]

\* ------------------------------------------------------ with_tc_info_from

\* no copy: the new tree is the old one
NoCopy(tree, elements) == [tree |-> tree, heap |-> elements]

\* copy.deepcopy: fresh texunit elements with the same children
DeepCopy(tree, elements) ==
    [tree |-> [i \in 1..Len(tree) |-> Len(elements) + i],
     heap |-> elements \o [i \in 1..Len(tree) |-> elements[tree[i]]]]

\* the texunits' children, in document order: what tree serializes to
TreeContent(tree, elements) == [i \in 1..Len(tree) |-> elements[tree[i]]]

\* the fragment takes the place of the children
TcInfoReplacing(template, tree, elements) ==
    LET new == DeepCopy(tree, elements)
    IN IF ~template.parses THEN [exc |-> "ParseError", tree |-> <<>>, heap |-> new.heap]
       ELSE IF new.tree = <<>> THEN [exc |-> "none", tree |-> new.tree, heap |-> new.heap]
       ELSE IF template.texunits = <<>> THEN [exc |-> "TypeError", tree |-> <<>>, heap |-> new.heap]
       ELSE [exc |-> "none", tree |-> new.tree,
             heap |-> [id \in 1..Len(new.heap) |->
                          IF \E i \in 1..Len(new.tree) : new.tree[i] = id
                          THEN template.texunits[1] ELSE new.heap[id]]]

\* template is what ElementTree.parse(template_file) gives; find() answers its
\* first texunit, None when it has none, and iterating None raises TypeError
WithTcInfoFrom(template, tree, elements) ==
    LET new == DeepCopy(tree, elements)
    IN IF ~template.parses THEN [exc |-> "ParseError", tree |-> <<>>, heap |-> new.heap]
       ELSE IF new.tree = <<>> THEN [exc |-> "none", tree |-> new.tree, heap |-> new.heap]
       ELSE IF template.texunits = <<>> THEN [exc |-> "TypeError", tree |-> <<>>, heap |-> new.heap]
       ELSE [exc |-> "none", tree |-> new.tree,
             heap |-> [id \in 1..Len(new.heap) |->
                          IF \E i \in 1..Len(new.tree) : new.tree[i] = id
                          THEN new.heap[id] \o template.texunits[1] ELSE new.heap[id]]]

\* ------------------------------------------------ get_referenced_textures

\* the text of every material/renderpass/texunit/map node, in document order
ReferencedTextures(tree, elements) ==
    LET children == Flatten(TreeContent(tree, elements))
        maps == {i \in 1..Len(children) : children[i].tag = "map"}
        RECURSIVE Pick(_)
        Pick(i) == IF i > Len(children) THEN <<>>
                   ELSE IF i \in maps THEN <<children[i].text>> \o Pick(i + 1)
                   ELSE Pick(i + 1)
    IN Pick(1)

\* ------------------------------------------------------- str.capitalize

LowerCase == <<"a","b","c","d","e","f","g","h","i","j","k","l","m","n","o","p","q","r","s","t","u","v","w","x","y","z">>
UpperCase == <<"A","B","C","D","E","F","G","H","I","J","K","L","M","N","O","P","Q","R","S","T","U","V","W","X","Y","Z">>
Upper(c) == IF \E i \in 1..26 : LowerCase[i] = c
            THEN UpperCase[CHOOSE i \in 1..26 : LowerCase[i] = c] ELSE c
Lower(c) == IF \E i \in 1..26 : UpperCase[i] = c
            THEN LowerCase[CHOOSE i \in 1..26 : UpperCase[i] = c] ELSE c
Capitalize(text) == [i \in 1..Len(text) |-> IF i = 1 THEN Upper(text[i]) ELSE Lower(text[i])]

\* ---------------------------------------------------------------- the run

\* exec_dir, and the directories run_for_config and main derive from it with
\* the default --nl2mat_out, --nl2sco_out and --preview_out
ExecDir == <<Root, <<"a","p","p">>>>
TemplateDir == JoinPath(ExecDir, <<".","/","t","e","m","p","l","a","t","e","s">>)
Nl2matDst == JoinPath(ExecDir, <<".","/","S","c","a","l","e","a","b","l","e"," ","B","u","i","l","d"," ","S","h","a","p","e","s","/","r","e","s","o","u","r","c","e","s","/","m","a","t","e","r","i","a","l","s","/">>)
Nl2scoDst == JoinPath(ExecDir, <<".","/","S","c","a","l","e","a","b","l","e"," ","B","u","i","l","d"," ","S","h","a","p","e","s","/">>)
PreviewDst == JoinPath(ExecDir, <<".","/","S","c","a","l","e","a","b","l","e"," ","B","u","i","l","d"," ","S","h","a","p","e","s","/","r","e","s","o","u","r","c","e","s","/","p","r","e","v","i","e","w","s","/">>)

\* the scene-object templates main finds: each file with its text
ScoTemplates ==
    << [file |-> TemplateDir \o <<<<"[","s","c","o","]","_","w","a","l","l",".","x","m","l">>>>,
        content |-> <<"<","n","a","m","e",">","{","m","a","t","e","r","i","a","l","_","n","a","m","e","}","<","/","n","a","m","e",">","{","p","r","e","v","i","e","w","}","{","o","r","i","g","i","n","a","l","_","u","s","e","r","c","o","l","o","r","s","}","{","s","c","a","l","e","_","s","e","t","t","i","n","g","s","}">>] >>

\* one entry of the log: a copy attempted (kind "copy", ok when it copied) or a
\* file written (kind "mat" or "sco", with its content and, for a scene-object
\* file, the replacement dict used)
Event(kind, src, path, ok, content, used) ==
    [kind |-> kind, group |-> group_i, mat |-> IF kind = "copy" /\ pc = "group" THEN 0 ELSE mat_i,
     tpl |-> IF kind = "copy" THEN 0 ELSE tpl_i,
     src |-> src, path |-> path, ok |-> ok, content |-> content, used |-> used]
CopyEvents(copies) ==
    [i \in 1..Len(copies) |->
        Event("copy", copies[i].src, copies[i].dst, copies[i].copied, <<>>, <<>>)]

NoTree == [parses |-> FALSE, previews |-> <<>>, usercolors |-> <<>>]
ScoTreeOf(nl2sco_file) == IF nl2sco_file = <<>> THEN NoTree ELSE sco_trees[nl2sco_file]

Crashed(exc) == pc' = "crashed" /\ crash' = exc

\* process_group_files up to its loop: get_sco_replacements
StartGroup ==
    /\ pc = "group" /\ group_i <= Len(run_groups)
    /\ LET nl2sco_file == run_groups[group_i].nl2sco_file
           answer == GetScoReplacements(nl2sco_file, PreviewDst, Nl2scoDst,
                                        ScoTreeOf(nl2sco_file), uncopyable)
       IN /\ log' = log \o CopyEvents(answer.copies)
          /\ IF answer.exc # "none"
             THEN Crashed(answer.exc) /\ UNCHANGED <<sco_replacements, baselines, mat_i>>
             ELSE /\ sco_replacements' = answer.val
                  /\ baselines' = Append(baselines, answer.val)
                  /\ mat_i' = 1 /\ pc' = "material" /\ UNCHANGED crash
    /\ UNCHANGED <<pureVars, worldVars, group_i, tpl_i, heap, nl2mat_tree>>

\* run_for_config's loop is over
Finish ==
    /\ pc = "group" /\ group_i > Len(run_groups)
    /\ pc' = "done"
    /\ UNCHANGED <<pureVars, worldVars, group_i, mat_i, tpl_i, sco_replacements, heap,
                   nl2mat_tree, log, baselines, crash>>

Nl2matFile == run_groups[group_i].nl2mat_files[mat_i]

\* copy_files is never handed the pairs
NoTextureCopies(origin_path, textures, dst_path) == <<>>

\* the (source, destination) pairs of the textures, up to a map node without text
TextureCopies(origin_path, textures, dst_path) ==
    LET none == {i \in 1..Len(textures) : textures[i] = <<>>}
        n == IF none = {} THEN Len(textures) ELSE Min(none) - 1
    IN [i \in 1..n |-> <<JoinPath(origin_path, textures[i]), JoinPath(dst_path, textures[i])>>]

\* handle_materials up to its loop: parse the material, copy its textures
BeginMaterial ==
    /\ pc = "material" /\ mat_i <= Len(run_groups[group_i].nl2mat_files)
    /\ LET tree == materials[Nl2matFile]
           ids == [i \in 1..Len(tree.texunits) |-> i]
           textures == ReferencedTextures(ids, tree.texunits)
           copied == CopyFiles(TextureCopies(Parent(Nl2matFile), textures, Nl2matDst),
                               uncopyable)
       IN IF ~tree.parses
          THEN Crashed("ParseError") /\ UNCHANGED <<heap, nl2mat_tree, log, tpl_i>>
          ELSE /\ heap' = tree.texunits
               /\ nl2mat_tree' = ids
               /\ log' = log \o CopyEvents(copied.copies)
               /\ IF copied.exc # "none"
                  THEN Crashed(copied.exc) /\ UNCHANGED tpl_i
                  ELSE IF \E i \in 1..Len(textures) : textures[i] = <<>>
                  THEN Crashed("TypeError") /\ UNCHANGED tpl_i
                  ELSE pc' = "graft" /\ tpl_i' = 1 /\ UNCHANGED crash
    /\ UNCHANGED <<pureVars, worldVars, group_i, mat_i, sco_replacements, baselines>>

\* process_group_files' loop is over
EndGroup ==
    /\ pc = "material" /\ mat_i > Len(run_groups[group_i].nl2mat_files)
    /\ group_i' = group_i + 1 /\ pc' = "group"
    /\ UNCHANGED <<pureVars, worldVars, mat_i, tpl_i, sco_replacements, heap, nl2mat_tree,
                   log, baselines, crash>>

\* one round of handle_materials' loop: name, graft and write one material file
GraftTemplate ==
    /\ pc = "graft" /\ tpl_i <= Len(tc_templates)
    /\ LET template == tc_templates[tpl_i]
           material_name == Stem(Nl2matFile)
           dst_nl2mat == TransformToDstFile(template.file, MatToken,
                                            <<"[">> \o material_name \o <<"]">>,
                                            Nl2matSuffix, Nl2matDst)
           grafted == WithTcInfoFrom(template, nl2mat_tree, heap)
       IN IF dst_nl2mat.exc # "none"
          THEN Crashed(dst_nl2mat.exc) /\ UNCHANGED <<heap, log, tpl_i>>
          ELSE /\ heap' = grafted.heap
               /\ IF grafted.exc # "none"
                  THEN Crashed(grafted.exc) /\ UNCHANGED <<log, tpl_i>>
                  ELSE /\ log' = Append(log, Event("mat", template.file, dst_nl2mat.val, TRUE,
                                                   TreeContent(grafted.tree, grafted.heap), <<>>))
                       /\ tpl_i' = tpl_i + 1 /\ UNCHANGED <<pc, crash>>
    /\ UNCHANGED <<pureVars, worldVars, group_i, mat_i, sco_replacements, nl2mat_tree, baselines>>

\* the name is never stamped
NameNotStamped(replacements, material_name) == replacements

\* sco_replacements['{material_name}'] = material_name
WithMaterialName(replacements, material_name) ==
    Assign(replacements, MaterialNameToken, material_name)

\* handle_materials returns; process_group_files stamps the material's name
EndGraft ==
    /\ pc = "graft" /\ tpl_i > Len(tc_templates)
    /\ sco_replacements' = WithMaterialName(sco_replacements, Stem(Nl2matFile))
    /\ heap' = <<>> /\ nl2mat_tree' = <<>>
    /\ pc' = "sco" /\ tpl_i' = 1
    /\ UNCHANGED <<pureVars, worldVars, group_i, mat_i, log, baselines, crash>>

\* one round of create_nl2scos' loop
CreateNl2sco ==
    /\ pc = "sco" /\ tpl_i <= Len(ScoTemplates)
    /\ LET sco_template == ScoTemplates[tpl_i]
           material_name == Stem(Nl2matFile)
           new_nl2sco_content == WithAppliedPlaceholders(sco_template.content, sco_replacements)
           dst_nl2sco == TransformToDstFile(sco_template.file, ScoToken,
                                            Capitalize(material_name), Nl2scoSuffix, Nl2scoDst)
       IN IF dst_nl2sco.exc # "none"
          THEN Crashed(dst_nl2sco.exc) /\ UNCHANGED <<log, tpl_i>>
          ELSE /\ log' = Append(log, Event("sco", sco_template.file, dst_nl2sco.val, TRUE,
                                           new_nl2sco_content, sco_replacements))
               /\ tpl_i' = tpl_i + 1 /\ UNCHANGED <<pc, crash>>
    /\ UNCHANGED <<pureVars, worldVars, group_i, mat_i, sco_replacements, heap, nl2mat_tree,
                   baselines>>

\* create_nl2scos returns: the next material
EndMaterial ==
    /\ pc = "sco" /\ tpl_i > Len(ScoTemplates)
    /\ mat_i' = mat_i + 1 /\ pc' = "material"
    /\ UNCHANGED <<pureVars, worldVars, group_i, tpl_i, sco_replacements, heap, nl2mat_tree,
                   log, baselines, crash>>

NextRun ==
    \/ StartGroup \/ BeginMaterial \/ GraftTemplate \/ EndGraft
    \/ CreateNl2sco \/ EndMaterial \/ EndGroup \/ Finish

\* run_for_config is entered
RunStarts ==
    /\ args = [fn |-> "run_for_config"] /\ result = NotCalled
    /\ pc = "group" /\ group_i = 1 /\ mat_i = 0 /\ tpl_i = 0
    /\ sco_replacements = <<>> /\ heap = <<>> /\ nl2mat_tree = <<>> /\ log = <<>>
    /\ baselines = <<>> /\ crash = "none"

\* ------------------------------------------------- runs over whole groups

Element(tag, text) == [tag |-> tag, text |-> text]
Unparseable == [parses |-> FALSE, texunits |-> <<>>]
\* the material documents by stem: red holds two texunits and two textures,
\* blue holds no texunit
DocumentOf(stem) ==
    IF stem = <<"r","e","d">>
    THEN [parses |-> TRUE,
          texunits |-> << <<Element("map", <<"r","e","d","_","a",".","p","n","g">>), Element("tc", <<>>)>>,
                          <<Element("map", <<"t","e","x","/","r","e","d","_","b",".","p","n","g">>)>> >>]
    ELSE [parses |-> TRUE, texunits |-> <<>>]
SceneObject ==
    [parses |-> TRUE, previews |-> <<<<"i","m","g","/","p","r","e","v","i","e","w",".","j","p","g">>>>,
     usercolors |-> <<[text |-> <<"1"," ","0"," ","0">>, tail |-> <<>>]>>]
TcTemplate(name, tag) ==
    [file |-> TemplateDir \o <<name>>, parses |-> TRUE,
     texunits |-> << <<Element(tag, <<"0">>), Element(tag, <<"1">>)>> >>]
TcTemplates == <<TcTemplate(<<"[","m","a","t","]","_","a",".","x","m","l">>, "tc_a"), TcTemplate(<<"[","m","a","t","]","_","b",".","x","m","l">>, "tc_b")>>

Digits == <<"1","2","3","4","5","6","7","8","9">>
InDir == <<Root, <<"i","n">>>>
GroupDir(i) == InDir \o << <<"d", Digits[i]>> >>
MatFile(dir, stem) == dir \o <<stem \o Nl2matSuffix>>
LooseFiles == {<<>>, <<MatFile(InDir, <<"r","e","d">>)>>, <<MatFile(InDir, <<"r","e","d">>), MatFile(InDir, <<"b","l","u","e">>)>>}
DirGroupShapes == [stems : {<<<<"r","e","d">>, <<"b","l","u","e">>>>, <<<<"b","l","u","e">>, <<"r","e","d">>>>}, sco : BOOLEAN]
DirGroup(i, shape) ==
    [nl2sco_file |-> IF shape.sco THEN GroupDir(i) \o <<<<"w","a","l","l",".","n","l","2","s","c","o">>>> ELSE <<>>,
     nl2mat_files |-> [k \in 1..Len(shape.stems) |-> MatFile(GroupDir(i), shape.stems[k])]]
\* what groups_from_paths builds: the loose files first, then a group per
\* directory with materials; main runs nothing when there is no material at all
RunGroupLists ==
    {groups \in
        UNION {{<<[nl2sco_file |-> <<>>, nl2mat_files |-> loose]>>
                    \o [i \in 1..n |-> DirGroup(i, shapes[i])] :
                 loose \in LooseFiles, shapes \in [1..n -> DirGroupShapes]} :
               n \in 0..MaxDirGroups} :
     ~(Len(groups) = 1 /\ groups[1].nl2mat_files = <<>>)}

Range(f) == {f[x] : x \in DOMAIN f}
MaterialFiles(groups) == UNION {Range(groups[i].nl2mat_files) : i \in 1..Len(groups)}
ScoFiles(groups) == {groups[i].nl2sco_file : i \in 1..Len(groups)} \ {<<>>}
MapNodes(tree) == {x \in Range(Flatten(tree.texunits)) : x.tag = "map"}
TextureSources(groups) ==
    UNION {{JoinPath(Parent(f), c.text) : c \in MapNodes(DocumentOf(Stem(f)))} :
           f \in MaterialFiles(groups)}
PreviewSources(groups) ==
    {JoinPath(Parent(f), SceneObject.previews[1]) : f \in ScoFiles(groups)}

NoFault == [kind |-> "none", file |-> <<>>]
FaultSites(groups) ==
    {[kind |-> "unparseable", file |-> f] : f \in MaterialFiles(groups) \cup ScoFiles(groups)}
    \cup {[kind |-> "uncopyable", file |-> f] :
              f \in TextureSources(groups) \cup PreviewSources(groups)}
    \cup {[kind |-> "malformed", file |-> TcTemplates[i].file] : i \in 1..Len(TcTemplates)}
FaultSets(groups) ==
    {Range(f) \ {NoFault} : f \in [1..MaxFaults -> FaultSites(groups) \cup {NoFault}]}
Has(faults, kind, file) == [kind |-> kind, file |-> file] \in faults

InitRun ==
    /\ RunStarts
    /\ \E groups \in RunGroupLists : \E faults \in FaultSets(groups) :
        /\ run_groups = groups
        /\ tc_templates =
               [i \in 1..Len(TcTemplates) |->
                   IF Has(faults, "malformed", TcTemplates[i].file)
                   THEN [TcTemplates[i] EXCEPT !.texunits = <<>>] ELSE TcTemplates[i]]
        /\ materials =
               [f \in MaterialFiles(groups) |->
                   IF Has(faults, "unparseable", f) THEN Unparseable
                   ELSE DocumentOf(Stem(f))]
        /\ sco_trees =
               [f \in ScoFiles(groups) |->
                   IF Has(faults, "unparseable", f) THEN NoTree ELSE SceneObject]
        /\ uncopyable = {f.file : f \in {x \in faults : x.kind = "uncopyable"}}

SpecRun == InitRun /\ [][NextRun]_vars

\* ------------------------------------------- runs over material documents

GraftFile == MatFile(InDir, <<"w","o","o","d">>)
ChildLists(element) == UNION {[1..k -> {element}] : k \in 0..MaxChildren}
\* the material documents: up to MaxTexunits texunits of up to MaxChildren maps
GraftDocuments ==
    UNION {[1..n -> ChildLists(Element("map", <<"w",".","p","n","g">>))] : n \in 0..MaxTexunits}
\* the template documents: no texunit, one, or a second one behind it
TemplateDocuments(tag) ==
    {<<>>}
    \cup {<<f>> : f \in ChildLists(Element(tag, <<>>))}
    \cup {<<f, <<Element("other", <<>>)>> >> : f \in ChildLists(Element(tag, <<>>))}

InitGraft ==
    /\ RunStarts
    /\ run_groups = <<[nl2sco_file |-> <<>>, nl2mat_files |-> <<GraftFile>>]>>
    /\ \E doc \in GraftDocuments :
           materials = [f \in {GraftFile} |-> [parses |-> TRUE, texunits |-> doc]]
    /\ \E a \in TemplateDocuments("tc_a"), b \in TemplateDocuments("tc_b") :
           tc_templates = <<[TcTemplates[1] EXCEPT !.texunits = a],
                            [TcTemplates[2] EXCEPT !.texunits = b]>>
    /\ sco_trees = <<>>
    /\ uncopyable \in {{}, {JoinPath(InDir, <<"w",".","p","n","g">>)}}

SpecGraft == InitGraft /\ [][NextRun]_vars

\* ------------------------------------------------------ claims on the runs

FileOf(e) == run_groups[e.group].nl2mat_files[e.mat]
ParsedOf(e) == materials[FileOf(e)].texunits
Written(kind) == {i \in 1..Len(log) : log[i].kind = kind}
WellFormed(tpl) == tc_templates[tpl].parses /\ tc_templates[tpl].texunits # <<>>

\* C1: grafting a material document with a template that has a first texunit
\* gives every texunit of the document its original children, in place,
\* followed by the children of the template's first texunit: the child count
\* is the original count plus the template's.
C1_GraftAdditivity ==
    \A i \in Written("mat") :
        WellFormed(log[i].tpl) =>
            LET parsed == ParsedOf(log[i])
                fragment == tc_templates[log[i].tpl].texunits[1]
                content == log[i].content
            IN /\ Len(content) = Len(parsed)
               /\ \A k \in 1..Len(parsed) :
                      /\ Len(content[k]) = Len(parsed[k]) + Len(fragment)
                      /\ SubSeq(content[k], 1, Len(parsed[k])) = parsed[k]
                      /\ SubSeq(content[k], Len(parsed[k]) + 1, Len(content[k])) = fragment
C1_Witness ==
    \E i \in Written("mat") :
        /\ WellFormed(log[i].tpl)
        /\ Len(tc_templates[log[i].tpl].texunits) = 2
        /\ Len(tc_templates[log[i].tpl].texunits[1]) = 2
        /\ Len(ParsedOf(log[i])) = 2
        /\ Len(ParsedOf(log[i])[1]) = 1 /\ Len(ParsedOf(log[i])[2]) = 2
        /\ Len(log[i].content[1]) = 3 /\ Len(log[i].content[2]) = 4

\* C2: with_tc_info_from never changes the material document it is given:
\* while handle_materials loops over the templates the parsed tree equals
\* what was parsed, and the file grafted with the second template holds no
\* child of the first template's fragment.
FirstFragmentTags ==
    IF tc_templates[1].texunits = <<>> THEN {}
    ELSE {tc_templates[1].texunits[1][j].tag : j \in 1..Len(tc_templates[1].texunits[1])}
C2_NonMutation ==
    /\ pc = "graft" => TreeContent(nl2mat_tree, heap) = materials[Nl2matFile].texunits
    /\ \A i \in Written("mat") :
           log[i].tpl = 2 =>
               \A k \in 1..Len(log[i].content) : \A j \in 1..Len(log[i].content[k]) :
                   log[i].content[k][j].tag \notin FirstFragmentTags
C2_Witness ==
    /\ pc = "graft" /\ tpl_i = 3
    /\ Len(nl2mat_tree) = 2 /\ FirstFragmentTags # {}
    /\ \E i \in Written("mat") :
           log[i].tpl = 2 /\ \E j \in 1..Len(log[i].content[1]) : log[i].content[1][j].tag = "tc_b"
    /\ TreeContent(nl2mat_tree, heap) = materials[Nl2matFile].texunits

Positions ==
    UNION {{<<gi, mi>> : mi \in 1..Len(run_groups[gi].nl2mat_files)} : gi \in 1..Len(run_groups)}
HasFile(kind, gi, mi, tpl) ==
    \E i \in Written(kind) : log[i].group = gi /\ log[i].mat = mi /\ log[i].tpl = tpl
AllFilesOf(gi, mi) ==
    /\ \A tpl \in 1..Len(tc_templates) : HasFile("mat", gi, mi, tpl)
    /\ \A tpl \in 1..Len(ScoTemplates) : HasFile("sco", gi, mi, tpl)
SourcesParse ==
    /\ \A f \in DOMAIN materials : materials[f].parses
    /\ \A f \in DOMAIN sco_trees : sco_trees[f].parses
TemplatesWellFormed == \A tpl \in 1..Len(tc_templates) : WellFormed(tpl)
Terminated == pc \in {"done", "crashed"}
TexturesOf(gi, mi) ==
    LET tree == materials[run_groups[gi].nl2mat_files[mi]]
    IN {c.text : c \in MapNodes(tree)}
Attempted(gi, mi, texture, before) ==
    \E i \in 1..(before - 1) :
        /\ log[i].kind = "copy" /\ log[i].group = gi /\ log[i].mat = mi
        /\ log[i].src = JoinPath(Parent(run_groups[gi].nl2mat_files[mi]), texture)

\* C3: a texture or preview copy that fails is logged and skipped inside
\* copy_files: no exception of a copy leaves it, the other copies of the same
\* list are still attempted, and when copies are all that fails the run ends
\* with every material of every group holding all of its files.
C3_CopyFailureIsolated ==
    /\ crash # "OSError"
    /\ \A i \in Written("copy") :
           (~log[i].ok /\ log[i].mat > 0) =>
               \A texture \in TexturesOf(log[i].group, log[i].mat) :
                   Attempted(log[i].group, log[i].mat, texture, Len(log) + 1)
    /\ (SourcesParse /\ TemplatesWellFormed) => pc # "crashed"
    /\ pc = "done" => \A p \in Positions : AllFilesOf(p[1], p[2])
C3_Witness ==
    /\ pc = "done" /\ Len(run_groups) = 2
    /\ \E i \in Written("copy") :
           /\ ~log[i].ok /\ log[i].group = 1 /\ log[i].mat = 1
           /\ \E j \in Written("copy") : j > i /\ log[j].group = 1 /\ log[j].mat = 1
    /\ AllFilesOf(1, 1) /\ AllFilesOf(1, 2) /\ AllFilesOf(2, 1) /\ AllFilesOf(2, 2)

\* C4: a missing or unparseable material (or scene-object) source file is
\* fatal only for its own outputs: when such files are all that is wrong, the
\* run ends with every other material, of the same and of the other groups,
\* holding its material files, and its scene-object files too where the
\* group's scene-object source is sound.
C4_BadInputContained ==
    (TemplatesWellFormed /\ uncopyable = {} /\ Terminated) =>
        \A p \in Positions :
            materials[run_groups[p[1]].nl2mat_files[p[2]]].parses =>
                /\ \A tpl \in 1..Len(tc_templates) : HasFile("mat", p[1], p[2], tpl)
                /\ ScoTreeOf(run_groups[p[1]].nl2sco_file).parses
                       \/ run_groups[p[1]].nl2sco_file = <<>>
                   => \A tpl \in 1..Len(ScoTemplates) : HasFile("sco", p[1], p[2], tpl)

\* C5: a material template without a node at material/renderpass/texunit
\* aborts only its own contribution: when such templates are all that is
\* wrong, the run ends with every material holding the files of the other
\* material templates and its scene-object files.
C5_MalformedTemplateContained ==
    (SourcesParse /\ uncopyable = {} /\ Terminated) =>
        /\ crash = "none"
        /\ \A p \in Positions :
               /\ \A tpl \in 1..Len(tc_templates) :
                      WellFormed(tpl) => HasFile("mat", p[1], p[2], tpl)
               /\ \A tpl \in 1..Len(ScoTemplates) : HasFile("sco", p[1], p[2], tpl)

\* C6: every texture copy of a material has been attempted (copied, or logged
\* and skipped) before any material file or scene-object file of that material
\* is written, and none is attempted after.
C6_CopiesBeforeFiles ==
    \A j \in Written("mat") \cup Written("sco") :
        /\ \A texture \in TexturesOf(log[j].group, log[j].mat) :
               Attempted(log[j].group, log[j].mat, texture, j)
        /\ \A i \in Written("copy") :
               (log[i].group = log[j].group /\ log[i].mat = log[j].mat) => i < j
C6_Witness ==
    \E j \in Written("mat") : \E i \in Written("copy") :
        /\ i < j /\ ~log[i].ok
        /\ log[i].group = log[j].group /\ log[i].mat = log[j].mat
        /\ Cardinality(TexturesOf(log[j].group, log[j].mat)) = 2

\* C7: the baseline dict is built once per group, and every scene-object file
\* of material m is made with {material_name} = m's file stem and with
\* {preview}, {original_usercolors} and {scale_settings} as in the group's
\* baseline, whatever the order of the materials; without a source
\* scene-object the dict is all empty but for the name.
C7_ReplacementMapPerMaterial ==
    /\ Len(baselines) \in {group_i - 1, group_i}
    /\ pc \in {"material", "graft", "sco"} => Len(baselines) = group_i
    /\ pc \in {"group", "done"} => Len(baselines) = group_i - 1
    /\ \A i \in Written("sco") :
           LET used == log[i].used
               name == Stem(FileOf(log[i]))
               nl2sco_file == run_groups[log[i].group].nl2sco_file
           IN /\ Lookup(used, MaterialNameToken) = name
              /\ \A tok \in Tokens \ {MaterialNameToken} :
                     Lookup(used, tok) = Lookup(baselines[log[i].group], tok)
              /\ Lookup(used, ScaleToken) = <<>>
              /\ nl2sco_file = <<>> =>
                     used = << <<PreviewToken, <<>> >>, <<UsercolorsToken, <<>> >>,
                               <<ScaleToken, <<>> >>, <<MaterialNameToken, name>> >>
              /\ nl2sco_file # <<>> =>
                     /\ Lookup(used, PreviewToken) =
                            <<"<","p","r","e","v","i","e","w",">","r","e","s","o","u","r","c","e","s","/","p","r","e","v","i","e","w","s","/","i","m","g","/","p","r","e","v","i","e","w",".","j","p","g","<","/","p","r","e","v","i","e","w",">">>
                     /\ Lookup(used, UsercolorsToken) = <<"<","u","s","e","r","c","o","l","o","r",">","1"," ","0"," ","0","<","/","u","s","e","r","c","o","l","o","r",">">>
C7_Witness ==
    \E i, j \in Written("sco") :
        /\ log[i].group = 2 /\ log[i].mat = 1 /\ log[j].group = 2 /\ log[j].mat = 2
        /\ run_groups[2].nl2sco_file # <<>> /\ Len(run_groups[1].nl2mat_files) = 2
        /\ Lookup(log[i].used, MaterialNameToken) = <<"b","l","u","e">>
        /\ Lookup(log[j].used, MaterialNameToken) = <<"r","e","d">>
        /\ Lookup(log[j].used, PreviewToken) # <<>>

\* ---------------------------------------------------------- single calls

\* no run: one function is called on its own
NoRun ==
    /\ run_groups = <<>> /\ tc_templates = <<>> /\ materials = <<>> /\ sco_trees = <<>>
    /\ uncopyable = {} /\ pc = "idle" /\ group_i = 0 /\ mat_i = 0 /\ tpl_i = 0
    /\ sco_replacements = <<>> /\ heap = <<>> /\ nl2mat_tree = <<>> /\ log = <<>>
    /\ baselines = <<>> /\ crash = "none"

\* ------------------------------------------- calls of transform_to_dst_file

NamePieces == {MatToken, ScoToken, XmlSuffix, <<"b","a","s","e">>, <<"t","a","i","l">>, <<".">>}
\* every assembly of pieces that is a file name a directory can hold
NamePieceLists ==
    {ps \in UNION {[1..n -> NamePieces] : n \in 1..MaxNamePieces} : Flatten(ps) # <<".">>}
TemplateDirs == {<<>>, <<<<Sep>>, <<"a","p","p">>, <<"t","e","m","p","l","a","t","e","s">>>>}
ReplacedNames == {<<"[","R","e","d","]">>, <<"[","a",".","b","]">>, <<"[","[","m","a","t","]","]">>}
DstPaths == {<<<<"d","e","s","t">>>>, <<<<Sep>>, <<"o","u","t">>, <<"m","a","t","e","r","i","a","l","s">>>>}

ResolveInputs ==
    [fn : {"transform_to_dst_file"}, pieces : NamePieceLists, dir : TemplateDirs,
     replace_string : {MatToken, ScoToken}, replaced_name : ReplacedNames,
     suffix : {Nl2matSuffix, Nl2scoSuffix}, dst_path : DstPaths]

InitResolve == args \in ResolveInputs /\ result = NotCalled /\ NoRun

CallTransform ==
    /\ args.fn = "transform_to_dst_file"
    /\ result = NotCalled
    /\ result' = TransformToDstFile(args.dir \o <<Flatten(args.pieces)>>, args.replace_string,
                                    args.replaced_name, args.suffix, args.dst_path)
    /\ UNCHANGED <<args, worldVars, runVars>>

NextResolve == CallTransform

SpecResolve == InitResolve /\ [][NextResolve]_vars

\* C9: transform_to_dst_file returns the destination directory joined with the
\* template's file name (its directory dropped) in which every occurrence of the
\* match token is replaced and whose suffix (as pathlib defines a suffix) is
\* forced to the new one; base[mat]tail.xml with [mat] -> [Red] and .nl2mat
\* gives dest/base[Red]tail.nl2mat; an absent match token is no error and
\* changes only suffix and directory.
ResolveCalled == args.fn = "transform_to_dst_file" /\ result # NotCalled
PieceReplaced ==
    Flatten([i \in 1..Len(args.pieces) |->
        IF args.pieces[i] = args.replace_string THEN args.replaced_name ELSE args.pieces[i]])
StemOf(n) ==
    LET dots == {i \in 1..Len(n) : n[i] = "."}
        last == Max(dots)
    IN IF dots = {} THEN n
       ELSE IF last = 1 \/ last = Len(n) THEN n ELSE SubSeq(n, 1, last - 1)
ResolveExample ==
    /\ args.pieces = <<<<"b","a","s","e">>, MatToken, <<"t","a","i","l">>, XmlSuffix>>
    /\ args.replace_string = MatToken /\ args.replaced_name = <<"[","R","e","d","]">>
    /\ args.suffix = Nl2matSuffix /\ args.dst_path = <<<<"d","e","s","t">>>>
TokenAbsent == \A i \in 1..Len(args.pieces) : args.pieces[i] # args.replace_string
C9_FilenameResolution ==
    ResolveCalled =>
        /\ result.exc = "none"
        /\ result.val = args.dst_path \o <<StemOf(PieceReplaced) \o args.suffix>>
        /\ ResolveExample => result.val = <<<<"d","e","s","t">>, <<"b","a","s","e","[","R","e","d","]","t","a","i","l",".","n","l","2","m","a","t">>>>
        /\ TokenAbsent => result.val = args.dst_path \o <<StemOf(Flatten(args.pieces)) \o args.suffix>>
C9_Witness ==
    /\ ResolveCalled /\ ResolveExample /\ args.dir # <<>>
    /\ result = Ok(<<<<"d","e","s","t">>, <<"b","a","s","e","[","R","e","d","]","t","a","i","l",".","n","l","2","m","a","t">>>>)

\* -------------------------------------- calls of with_applied_placeholders

TextPieces == Tokens \cup {<<"{","p","r","e">>, <<"v","i","e","w","}">>, <<"x">>}
TextPieceLists == UNION {[1..n -> TextPieces] : n \in 0..MaxTextPieces}
PreviewValues == {<<>>, PreviewTag(<<"p",".","j","p","g">>)}
UsercolorsValues == {<<>>, <<"<","u","s","e","r","c","o","l","o","r",">","{","m","a","t","e","r","i","a","l","_","n","a","m","e","}","<","/","u","s","e","r","c","o","l","o","r",">">>}
MaterialNames == {<<"r","e","d">>, <<"{","p","r","e","v","i","e","w","}">>}

\* the dicts get_sco_replacements and process_group_files can build
ReplacementDicts ==
    {<< <<PreviewToken, p>>, <<UsercolorsToken, u>>, <<ScaleToken, <<>> >>, <<MaterialNameToken, m>> >> :
        p \in PreviewValues, u \in UsercolorsValues, m \in MaterialNames}

SubstInputs ==
    [fn : {"with_applied_placeholders"}, pieces : TextPieceLists, replacements : ReplacementDicts]

InitSubst == args \in SubstInputs /\ result = NotCalled /\ NoRun

CallApplyPlaceholders ==
    /\ args.fn = "with_applied_placeholders"
    /\ result = NotCalled
    /\ result' = Ok(WithAppliedPlaceholders(Flatten(args.pieces), args.replacements))
    /\ UNCHANGED <<args, worldVars, runVars>>

NextSubst == CallApplyPlaceholders

SpecSubst == InitSubst /\ [][NextSubst]_vars

Orders == {f \in [1..4 -> 1..4] : \A i, j \in 1..4 : f[i] = f[j] => i = j}
Reordered(d, f) == [i \in 1..Len(d) |-> d[f[i]]]
SubstCalled == args.fn = "with_applied_placeholders" /\ result # NotCalled
SameInEveryOrder ==
    \A f \in Orders :
        WithAppliedPlaceholders(Flatten(args.pieces), Reordered(args.replacements, f)) = result.val

\* C8 as claimed: for every template text and every replacement map over the
\* four tokens, with_applied_placeholders yields the same text in whatever order
\* the tokens are applied, also when a replacement value contains a token.
C8_OrderIndependent == SubstCalled => SameInEveryOrder

\* C8 as amended: the same, provided every "{" of the template text starts one
\* of the four tokens and no replacement value contains a "{".
BracesStartTokens(text) ==
    \A i \in 1..Len(text) : text[i] = "{" => \E tok \in Tokens : MatchAt(text, i, tok)
ValuesWithoutBrace(d) == \A i \in 1..Len(d) : ~Contains(d[i][2], "{")
OrderSafe == BracesStartTokens(Flatten(args.pieces)) /\ ValuesWithoutBrace(args.replacements)
C8_OrderIndependentWhenNoBraces == (SubstCalled /\ OrderSafe) => SameInEveryOrder
C8_Witness ==
    /\ SubstCalled /\ OrderSafe
    /\ args.pieces = <<MaterialNameToken, <<"x">>, PreviewToken>>
    /\ Lookup(args.replacements, PreviewToken) = PreviewTag(<<"p",".","j","p","g">>)
    /\ result.val = <<"r","e","d","x","<","p","r","e","v","i","e","w",">","p",".","j","p","g","<","/","p","r","e","v","i","e","w",">">>

\* ------------------------------------------- calls of get_sco_replacements

DirNames == {<<"o","u","t">>, <<"p","r","e","v","i","e","w","s">>}
OutputDirs == {<<Root>> \o d : d \in UNION {[1..n -> DirNames] : n \in 0..MaxDirDepth}}
ScoFile == <<Root, <<"i","n">>, <<"s","h","a","p","e","s">>, <<"w","a","l","l",".","n","l","2","s","c","o">>>>
PreviewTexts == {<<"i","m","g","/","p","r","e","v","i","e","w",".","j","p","g">>, <<"p","r","e","v","i","e","w",".","j","p","g">>}
Usercolor(text) == [text |-> text, tail |-> <<>>]
ScoTrees ==
    [parses : {TRUE},
     previews : {<<>>} \cup {<<p>> : p \in PreviewTexts},
     usercolors : {<<>>, <<Usercolor(<<"1"," ","0"," ","0">>)>>, <<Usercolor(<<"1"," ","0"," ","0">>), Usercolor(<<>>)>>}]

PreviewInputs ==
    [fn : {"get_sco_replacements"}, nl2sco_file : {<<>>, ScoFile},
     preview_dst : OutputDirs, sco_dst : OutputDirs, sco_tree : ScoTrees,
     copy_fails : BOOLEAN]

InitPreview == args \in PreviewInputs /\ result = NotCalled /\ NoRun

CallGetScoReplacements ==
    /\ args.fn = "get_sco_replacements"
    /\ result = NotCalled
    /\ result' = GetScoReplacements(
                    args.nl2sco_file, args.preview_dst, args.sco_dst, args.sco_tree,
                    IF args.copy_fails
                    THEN {JoinPath(Parent(ScoFile), p) : p \in PreviewTexts} ELSE {})
    /\ UNCHANGED <<args, worldVars, runVars>>

NextPreview == CallGetScoReplacements

SpecPreview == InitPreview /\ [][NextPreview]_vars

\* the path from directory start to path, climbing with ".." where needed
RECURSIVE CommonPrefixLen(_, _)
CommonPrefixLen(a, b) ==
    IF a = <<>> \/ b = <<>> \/ Head(a) # Head(b) THEN 0
    ELSE 1 + CommonPrefixLen(Tail(a), Tail(b))
RelPath(path, start) ==
    LET n == CommonPrefixLen(path, start)
    IN [i \in 1..(Len(start) - n) |-> <<".",".">>] \o SubSeq(path, n + 1, Len(path))

PreviewCalled ==
    /\ args.fn = "get_sco_replacements" /\ result # NotCalled
    /\ args.nl2sco_file # <<>> /\ args.sco_tree.previews # <<>>
PreviewExample ==
    /\ args.sco_tree.previews = <<<<"i","m","g","/","p","r","e","v","i","e","w",".","j","p","g">>>>
    /\ args.preview_dst = <<Root, <<"o","u","t">>, <<"p","r","e","v","i","e","w","s">>>> /\ args.sco_dst = <<Root, <<"o","u","t">>>>

\* C10: whenever the source scene-object has a preview reference p, the copy
\* from (scene-object directory)/p to dest_preview_dir/p is scheduled and
\* {preview} is the wrapper tag around dest_preview_dir/p expressed relative
\* to dest_sco_dir with forward slashes, for every pair of output directories,
\* also a preview directory that is not below the scene-object directory.
C10_PreviewRelativePath ==
    PreviewCalled =>
        LET p == args.sco_tree.previews[1]
            dst == JoinPath(args.preview_dst, p)
        IN /\ result.exc = "none"
           /\ Len(result.copies) = 1
           /\ result.copies[1].src = JoinPath(Parent(args.nl2sco_file), p)
           /\ result.copies[1].dst = dst
           /\ Lookup(result.val, PreviewToken) =
                  PreviewTag(JoinWith(RelPath(dst, args.sco_dst), <<Sep>>))
           /\ PreviewExample =>
                  Lookup(result.val, PreviewToken) = <<"<","p","r","e","v","i","e","w",">","p","r","e","v","i","e","w","s","/","i","m","g","/","p","r","e","v","i","e","w",".","j","p","g","<","/","p","r","e","v","i","e","w",">">>

====
